---- MODULE Spec2Model ----
\* Model of AppComponent (src/src/app/app.component.ts): the flow export
\* (exportToExcel), the message export (exportToExcel2) and the text
\* round trip corregirCodificacion.
\*
\* A JavaScript string is a sequence of UTF-16 code units (naturals).
\* A JavaScript value is a record [t, s, a]: t is the type tag, s the text
\* of a string, number or boolean, a the elements of an array.
EXTENDS Integers, Sequences, FiniteSets, TLC

VARIABLES data, headerModel, btnShow, messageAlert,
          readers, selected, loaded,
          lastOp, threw, orderedHeaders, filteredData, download,
          textoOriginal, salidas, pc, headerSet, visited

vars == <<data, headerModel, btnShow, messageAlert,
          readers, selected, loaded,
          lastOp, threw, orderedHeaders, filteredData, download,
          textoOriginal, salidas, pc, headerSet, visited>>

\* ---------------------------------------------------------------- bounds
MaxRecords == 2
\* the longest text handed to corregirCodificacion on its own
MaxTextLen == 3
\* the most calls of corregirCodificacion chained on one text
MaxCalls == 2
\* the most FileReaders whose load is pending at once
MaxReaders == 2

\* ------------------------------------------------------------ JS values
Str(s) == [t |-> "str", s |-> s, a |-> <<>>]
Num(s) == [t |-> "num", s |-> s, a |-> <<>>]
Bool(s) == [t |-> "bool", s |-> s, a |-> <<>>]
Arr(a) == [t |-> "arr", s |-> <<>>, a |-> a]
Undefined == [t |-> "undef", s |-> <<>>, a |-> <<>>]
Null == [t |-> "null", s |-> <<>>, a |-> <<>>]
EmptyObject == [t |-> "obj", s |-> <<>>, a |-> <<>>]

sTrue == <<116, 114, 117, 101>>
sFalse == <<102, 97, 108, 115, 101>>
sZero == <<48>>

\* ToBoolean, as used by `||` and `? :`
Truthy(v) ==
    CASE v.t = "str" -> v.s # <<>>
      [] v.t = "num" -> v.s # sZero
      [] v.t = "bool" -> v.s = sTrue
      [] v.t = "undef" -> FALSE
      [] v.t = "null" -> FALSE
      [] OTHER -> TRUE

\* a || b
OrElse(a, b) == IF Truthy(a) THEN a ELSE b

\* ToString of a value that is not an array
PrimitiveToString(v) ==
    CASE v.t = "undef" -> <<117, 110, 100, 101, 102, 105, 110, 101, 100>>
      [] v.t = "null" -> <<110, 117, 108, 108>>
      [] v.t = "obj" -> <<91, 111, 98, 106, 101, 99, 116, 32, 79, 98, 106, 101, 99, 116, 93>>
      [] OTHER -> v.s

\* Array.prototype.join with ",": null and undefined elements give "";
\* the elements are not arrays themselves
RECURSIVE JoinItems(_, _)
JoinItems(a, i) ==
    IF i > Len(a) THEN <<>>
    ELSE (IF a[i].t \in {"undef", "null"} THEN <<>> ELSE PrimitiveToString(a[i]))
         \o (IF i < Len(a) THEN <<44>> \o JoinItems(a, i + 1) ELSE <<>>)

\* ToString, as applied by template strings and by TextEncoder.encode
JSToString(v) == IF v.t = "arr" THEN JoinItems(v.a, 1) ELSE PrimitiveToString(v)

\* ----------------------------------------------------- string primitives
\* a < b in UTF-16 code unit order (the order of Array.prototype.sort)
RECURSIVE StrLess(_, _)
StrLess(a, b) ==
    IF b = <<>> THEN FALSE
    ELSE IF a = <<>> THEN TRUE
    ELSE IF a[1] # b[1] THEN a[1] < b[1]
    ELSE StrLess(Tail(a), Tail(b))

\* String.prototype.split with a non-empty separator: the pieces between
\* the occurrences of sep, found left to right without overlap
RECURSIVE SplitFrom(_, _, _, _)
SplitFrom(s, sep, start, i) ==
    IF i + Len(sep) - 1 > Len(s) THEN <<SubSeq(s, start, Len(s))>>
    ELSE IF SubSeq(s, i, i + Len(sep) - 1) = sep
         THEN <<SubSeq(s, start, i - 1)>> \o SplitFrom(s, sep, i + Len(sep), i + Len(sep))
         ELSE SplitFrom(s, sep, start, i + 1)

Split(s, sep) == SplitFrom(s, sep, 1, 1)

\* /\S/.test(s): some code unit is not white space
IsWhiteSpace(c) == c \in {9, 10, 11, 12, 13, 32, 160, 5760, 8232, 8233, 8239, 8287, 12288, 65279}
                   \/ c \in 8192..8202
HasNonSpace(s) == \E i \in 1..Len(s) : ~IsWhiteSpace(s[i])

\* ------------------------------------------------- TextEncoder / Decoder
IsHighSurrogate(c) == c \in 55296..56319
IsLowSurrogate(c) == c \in 56320..57343
ReplacementChar == 65533
ByteOrderMark == 65279

\* The USVString conversion of TextEncoder.encode: code units to code
\* points, every unpaired surrogate replaced by U+FFFD
RECURSIVE ToCodePoints(_)
ToCodePoints(s) ==
    IF s = <<>> THEN <<>>
    ELSE IF IsHighSurrogate(s[1]) /\ Len(s) >= 2 /\ IsLowSurrogate(s[2])
         THEN <<65536 + (s[1] - 55296) * 1024 + (s[2] - 56320)>>
              \o ToCodePoints(SubSeq(s, 3, Len(s)))
    ELSE IF IsHighSurrogate(s[1]) \/ IsLowSurrogate(s[1])
         THEN <<ReplacementChar>> \o ToCodePoints(Tail(s))
    ELSE <<s[1]>> \o ToCodePoints(Tail(s))

Utf8Bytes(cp) ==
    IF cp < 128 THEN <<cp>>
    ELSE IF cp < 2048 THEN <<192 + (cp \div 64), 128 + (cp % 64)>>
    ELSE IF cp < 65536
         THEN <<224 + (cp \div 4096), 128 + ((cp \div 64) % 64), 128 + (cp % 64)>>
    ELSE <<240 + (cp \div 262144), 128 + ((cp \div 4096) % 64),
           128 + ((cp \div 64) % 64), 128 + (cp % 64)>>

RECURSIVE EncodeCodePoints(_)
EncodeCodePoints(cps) ==
    IF cps = <<>> THEN <<>> ELSE Utf8Bytes(cps[1]) \o EncodeCodePoints(Tail(cps))

\* encoder.encode(texto)
TextEncoderEncode(s) == EncodeCodePoints(ToCodePoints(s))

IsContinuation(b) == b \in 128..191

\* the length of the UTF-8 sequence a lead byte announces, 0 for a byte
\* that cannot lead
SequenceLength(lead) ==
    IF lead < 128 THEN 1
    ELSE IF lead \in 194..223 THEN 2
    ELSE IF lead \in 224..239 THEN 3
    ELSE IF lead \in 240..244 THEN 4
    ELSE 0

\* the n bytes at i are one well-formed sequence (no overlong form, no
\* surrogate, nothing above U+10FFFF)
WellFormedAt(b, i, n) ==
    /\ n > 0
    /\ i + n - 1 <= Len(b)
    /\ \A j \in 1..(n - 1) : IsContinuation(b[i + j])
    /\ (b[i] = 224 => b[i + 1] >= 160)
    /\ (b[i] = 237 => b[i + 1] <= 159)
    /\ (b[i] = 240 => b[i + 1] >= 144)
    /\ (b[i] = 244 => b[i + 1] <= 143)

CodePointAt(b, i, n) ==
    CASE n = 1 -> b[i]
      [] n = 2 -> (b[i] - 192) * 64 + (b[i + 1] - 128)
      [] n = 3 -> (b[i] - 224) * 4096 + (b[i + 1] - 128) * 64 + (b[i + 2] - 128)
      [] OTHER -> (b[i] - 240) * 262144 + (b[i + 1] - 128) * 4096
                  + (b[i + 2] - 128) * 64 + (b[i + 3] - 128)

\* The UTF-8 decoder with fatal: true. The result is [ok, cps]; ok is
\* FALSE where the decoder throws a TypeError.
RECURSIVE DecodeFrom(_, _, _)
DecodeFrom(b, i, cps) ==
    IF i > Len(b) THEN [ok |-> TRUE, cps |-> cps]
    ELSE IF ~WellFormedAt(b, i, SequenceLength(b[i])) THEN [ok |-> FALSE, cps |-> <<>>]
    ELSE DecodeFrom(b, i + SequenceLength(b[i]),
                    Append(cps, CodePointAt(b, i, SequenceLength(b[i]))))

DecodeBytes(b) == DecodeFrom(b, 1, <<>>)

RECURSIVE ToCodeUnits(_)
ToCodeUnits(cps) ==
    IF cps = <<>> THEN <<>>
    ELSE (IF cps[1] >= 65536
          THEN <<55296 + ((cps[1] - 65536) \div 1024), 56320 + ((cps[1] - 65536) % 1024)>>
          ELSE <<cps[1]>>) \o ToCodeUnits(Tail(cps))

\* ignoreBOM is left at its default: one leading U+FEFF is dropped
StripByteOrderMark(cps) ==
    IF cps # <<>> /\ cps[1] = ByteOrderMark THEN Tail(cps) ELSE cps

DecodedText(d) == [ok |-> d.ok, s |-> ToCodeUnits(StripByteOrderMark(d.cps))]

\* decoder.decode(bytes) of new TextDecoder('utf-8', { fatal: true })
TextDecoderDecode(b) == DecodedText(DecodeBytes(b))

\* try { return decoder.decode(bytes) } catch (error) { return texto }
DecodedOrTexto(r, texto) == IF r.ok THEN Str(r.s) ELSE texto

\* corregirCodificacion(texto): texto is any JS value; encode takes its
\* string conversion
corregirCodificacion(texto) ==
    DecodedOrTexto(TextDecoderDecode(TextEncoderEncode(JSToString(texto))), texto)

\* ----------------------------------------------------------- JS objects
\* An object is the sequence of its own properties [k, v] in the order
\* Object.keys and for..in list them: array-index keys first, ascending,
\* then the other keys in insertion order.
IsDigit(c) == c \in 48..57
IsArrayIndex(k) ==
    /\ k # <<>>
    /\ Len(k) <= 9
    /\ \A i \in 1..Len(k) : IsDigit(k[i])
    /\ (Len(k) > 1 => k[1] # 48)

IndexLess(a, b) == Len(a) < Len(b) \/ (Len(a) = Len(b) /\ StrLess(a, b))

HasOwn(o, k) == \E i \in 1..Len(o) : o[i].k = k

\* o[k]
Get(o, k) ==
    IF HasOwn(o, k) THEN o[CHOOSE i \in 1..Len(o) : o[i].k = k].v ELSE Undefined

\* o[k] = v
SetProp(o, k, v) ==
    IF HasOwn(o, k)
    THEN [i \in 1..Len(o) |-> IF o[i].k = k THEN [k |-> k, v |-> v] ELSE o[i]]
    ELSE IF IsArrayIndex(k)
    THEN LET before == {i \in 1..Len(o) : IsArrayIndex(o[i].k) /\ IndexLess(o[i].k, k)}
             n == Cardinality(before)
         IN SubSeq(o, 1, n) \o <<[k |-> k, v |-> v]>> \o SubSeq(o, n + 1, Len(o))
    ELSE Append(o, [k |-> k, v |-> v])

Keys(o) == [i \in 1..Len(o) |-> o[i].k]
KeySet(o) == {o[i].k : i \in 1..Len(o)}

\* Array.prototype.includes with a string argument (SameValueZero)
Includes(arr, s) == \E i \in 1..Len(arr.a) : arr.a[i].t = "str" /\ arr.a[i].s = s

IsArray(v) == v.t = "arr"

\* ------------------------------------------------------- program strings
sSeparator == <<32, 124, 32>>
sT == <<84>>
sPlus == <<43>>
sX == <<88>>
sMessageId == <<109, 101, 115, 115, 97, 103, 101, 73, 100>>
sTelefono == <<116, 101, 108, 101, 102, 111, 110, 111>>
sFecha == <<102, 101, 99, 104, 97>>
sHora == <<104, 111, 114, 97>>
sMensaje == <<109, 101, 110, 115, 97, 106, 101>>
sSend == <<115, 101, 110, 100>>
sInput == <<105, 110, 112, 117, 116>>

\* ------------------------------------------------------ content parsing
\* A record's content is [kind, fr, body]:
\*   "badjson"  a string JSON.parse rejects
\*   "null"     the JSON text null
\*   "flow"     an object with eventParameters.flowResponse = fr
\*   "body"     an object with body = body and no eventParameters
\*   "neither"  an object with neither
\* typeof row.content === 'string' ? JSON.parse(row.content) : row.content
ParseThrows(row) == row.content.kind = "badjson"

\* contentObj?.eventParameters?.flowResponse || {}
FlowResponseOf(row) == IF row.content.kind = "flow" THEN row.content.fr ELSE <<>>

\* contentObj?.body || {}
BodyOf(row) == IF row.content.kind = "body" THEN OrElse(row.content.body, EmptyObject)
               ELSE EmptyObject

\* ------------------------------------------------------------ discovery
\* Mutant of SetAdd: an array push, which keeps repeated values
SetAdd_Push(set, x) == Append(set, x)

\* Set.prototype.add on an insertion-ordered set
SetAdd(set, x) == IF \E i \in 1..Len(set) : set[i] = x THEN set ELSE Append(set, x)

\* Mutant of IndicatorHeader: the header is the item alone, without its key
IndicatorHeader_ItemOnly(key, item) == JSToString(item)

\* `${key} | ${item}`
IndicatorHeader(key, item) == key \o sSeparator \o JSToString(item)

RECURSIVE AddItemHeaders(_, _, _, _)
AddItemHeaders(headers, key, items, i) ==
    IF i > Len(items) THEN headers
    ELSE AddItemHeaders(SetAdd(headers, IndicatorHeader(key, items[i])), key, items, i + 1)

\* Mutant of AddKeyHeaders: the bare key is added for a scalar value only
RECURSIVE AddKeyHeaders_ScalarOnly(_, _, _)
AddKeyHeaders_ScalarOnly(headers, fr, j) ==
    IF j > Len(fr) THEN headers
    ELSE AddKeyHeaders_ScalarOnly(
            IF IsArray(fr[j].v) THEN AddItemHeaders(headers, fr[j].k, fr[j].v.a, 1)
            ELSE SetAdd(headers, fr[j].k),
            fr, j + 1)

RECURSIVE AddKeyHeaders(_, _, _)
AddKeyHeaders(headers, fr, j) ==
    IF j > Len(fr) THEN headers
    ELSE LET withKey == SetAdd(headers, fr[j].k)
             withItems == IF IsArray(fr[j].v)
                          THEN AddItemHeaders(withKey, fr[j].k, fr[j].v.a, 1)
                          ELSE withKey
         IN AddKeyHeaders(withItems, fr, j + 1)

\* Mutant of DiscoverFrom: the Set is created inside the forEach callback,
\* so each record starts from an empty one
RECURSIVE DiscoverFrom_PerRecord(_, _, _)
DiscoverFrom_PerRecord(headers, d, i) ==
    IF i > Len(d) THEN [ok |-> TRUE, headers |-> headers]
    ELSE IF ParseThrows(d[i]) THEN [ok |-> FALSE, headers |-> headers]
    ELSE DiscoverFrom_PerRecord(AddKeyHeaders(<<>>, FlowResponseOf(d[i]), 1), d, i + 1)

\* this.data.forEach(...) of exportToExcel: [ok, headers]; ok is FALSE
\* where JSON.parse throws
RECURSIVE DiscoverFrom(_, _, _)
DiscoverFrom(headers, d, i) ==
    IF i > Len(d) THEN [ok |-> TRUE, headers |-> headers]
    ELSE IF ParseThrows(d[i]) THEN [ok |-> FALSE, headers |-> headers]
    ELSE DiscoverFrom(AddKeyHeaders(headers, FlowResponseOf(d[i]), 1), d, i + 1)

Discover(d) == DiscoverFrom(<<>>, d, 1)

\* Array.prototype.sort() without a comparator on an array of strings:
\* ascending in UTF-16 code unit order, equal strings kept
RECURSIVE SortFrom(_, _, _)
SortFrom(sorted, arr, i) ==
    IF i > Len(arr) THEN sorted
    ELSE LET n == Cardinality({j \in 1..Len(sorted) : ~StrLess(arr[i], sorted[j])})
         IN SortFrom(SubSeq(sorted, 1, n) \o <<arr[i]>> \o SubSeq(sorted, n + 1, Len(sorted)),
                     arr, i + 1)

\* Mutant of SortHeaders: the headers left in insertion order
SortHeaders_Unsorted(headers) == headers

\* Mutant of SortHeaders: sorted with the comparison reversed
SortHeaders_Descending(headers) ==
    LET asc == SortFrom(<<>>, headers, 1)
    IN [i \in 1..Len(asc) |-> asc[Len(asc) + 1 - i]]

\* Array.from(headers).sort()
SortHeaders(headers) == SortFrom(<<>>, headers, 1)

\* ----------------------------------------------------------- projection
\* let [fecha, hora] = ...; hora = hora.split('+')[0], on the pieces
\* split('T') gave
DateOfParts(parts) ==
    IF Len(parts) < 2 THEN [ok |-> FALSE, fecha |-> parts[1], hora |-> <<>>]
    ELSE [ok |-> TRUE, fecha |-> parts[1], hora |-> Split(parts[2], sPlus)[1]]

\* let [fecha, hora] = row.messageDate.split('T'); hora = hora.split('+')[0];
\* [ok, fecha, hora]; ok is FALSE where a TypeError is thrown (messageDate
\* is not a string, or has no 'T' so that hora is undefined)
SplitDate(messageDate) ==
    IF messageDate.t # "str" THEN [ok |-> FALSE, fecha |-> <<>>, hora |-> <<>>]
    ELSE DateOfParts(Split(messageDate.s, sT))

\* const formattedRow = { messageId: ..., telefono: ..., fecha: ..., hora: ... }
FixedCells(row, date) ==
    << [k |-> sMessageId, v |-> OrElse(row.messageId, Str(<<>>))],
       [k |-> sTelefono, v |-> row.contactId],
       [k |-> sFecha, v |-> OrElse(Str(date.fecha), Str(<<>>))],
       [k |-> sHora, v |-> OrElse(Str(date.hora), Str(<<>>))] >>

\* const [baseKey, arrayItem] = ..., on the pieces split(" | ") gave
HeaderOfParts(parts) ==
    [baseKey |-> parts[1],
     arrayItem |-> IF Len(parts) >= 2 THEN Str(parts[2]) ELSE Undefined]

\* const decodedHeader = this.corregirCodificacion(header);
\* const [baseKey, arrayItem] = decodedHeader.split(" | ")
SplitHeader(header) ==
    HeaderOfParts(Split(corregirCodificacion(Str(header)).s, sSeparator))

\* Array.isArray(flowResponse[baseKey]) && flowResponse[baseKey].includes(arrayItem) ? "X" : ""
IndicatorCell(flowResponse, baseKey, arrayItem) ==
    IF IsArray(Get(flowResponse, baseKey)) /\ Includes(Get(flowResponse, baseKey), arrayItem)
    THEN Str(sX) ELSE Str(<<>>)

\* flowResponse[baseKey] ? this.corregirCodificacion(flowResponse[baseKey]) : ""
ScalarCell(flowResponse, baseKey) ==
    IF Truthy(Get(flowResponse, baseKey))
    THEN corregirCodificacion(Get(flowResponse, baseKey)) ELSE Str(<<>>)

\* Mutant of ProjectSplitHeader: a scalar cell is written only when the
\* record has the key
ProjectSplitHeader_SkipAbsent(formattedRow, flowResponse, h) ==
    IF Truthy(h.arrayItem)
    THEN SetProp(formattedRow, h.arrayItem.s,
                 IndicatorCell(flowResponse, h.baseKey, h.arrayItem.s))
    ELSE IF HasOwn(flowResponse, h.baseKey)
    THEN SetProp(formattedRow, h.baseKey, ScalarCell(flowResponse, h.baseKey))
    ELSE formattedRow

\* if (arrayItem) { formattedRow[arrayItem] = ... } else { formattedRow[baseKey] = value }
ProjectSplitHeader(formattedRow, flowResponse, h) ==
    IF Truthy(h.arrayItem)
    THEN SetProp(formattedRow, h.arrayItem.s,
                 IndicatorCell(flowResponse, h.baseKey, h.arrayItem.s))
    ELSE SetProp(formattedRow, h.baseKey, ScalarCell(flowResponse, h.baseKey))

\* the body of orderedHeaders.forEach((header) => ...)
ProjectHeader(formattedRow, flowResponse, header) ==
    ProjectSplitHeader(formattedRow, flowResponse, SplitHeader(header))

RECURSIVE ProjectHeaders(_, _, _, _)
ProjectHeaders(formattedRow, flowResponse, headers, j) ==
    IF j > Len(headers) THEN formattedRow
    ELSE ProjectHeaders(ProjectHeader(formattedRow, flowResponse, headers[j]),
                        flowResponse, headers, j + 1)

\* the exception the first lines of a map callback throw on a record:
\* JSON.parse a SyntaxError, the date split a TypeError, else "none"
RowError(row) ==
    IF ParseThrows(row) THEN "SyntaxError"
    ELSE IF ~SplitDate(row.messageDate).ok THEN "TypeError"
    ELSE "none"

\* the callback of this.data.map(...) in exportToExcel, where it returns
ProjectRow(row, headers) ==
    ProjectHeaders(FixedCells(row, SplitDate(row.messageDate)),
                   FlowResponseOf(row), headers, 1)

\* Mutant of ProjectFrom: the records without answers are filtered out
RECURSIVE ProjectFrom_SkipEmpty(_, _, _, _)
ProjectFrom_SkipEmpty(rows, d, headers, i) ==
    IF i > Len(d) THEN [error |-> "none", rows |-> rows]
    ELSE IF RowError(d[i]) # "none" THEN [error |-> RowError(d[i]), rows |-> <<>>]
    ELSE ProjectFrom_SkipEmpty(
            IF FlowResponseOf(d[i]) = <<>> THEN rows
            ELSE Append(rows, ProjectRow(d[i], headers)),
            d, headers, i + 1)

\* this.data.map(...) of exportToExcel: [error, rows]; error names the
\* exception that ends it, "none" when every row is returned
RECURSIVE ProjectFrom(_, _, _, _)
ProjectFrom(rows, d, headers, i) ==
    IF i > Len(d) THEN [error |-> "none", rows |-> rows]
    ELSE IF RowError(d[i]) # "none" THEN [error |-> RowError(d[i]), rows |-> <<>>]
    ELSE ProjectFrom(Append(rows, ProjectRow(d[i], headers)), d, headers, i + 1)

ProjectAll(d, headers) == ProjectFrom(<<>>, d, headers, 1)

\* ------------------------------------------------------- message export
\* if (typeof flowResponse === 'string') { mensaje = corregirCodificacion(flowResponse) }
\* else { mensaje = flowResponse || '' }
Mensaje(flowResponse) ==
    IF flowResponse.t = "str" THEN corregirCodificacion(flowResponse)
    ELSE OrElse(flowResponse, Str(<<>>))

\* Mutant of MessageDateOfParts: the offset is left on the time
MessageDateOfParts_KeepOffset(parts) ==
    IF Len(parts) < 2 THEN [ok |-> FALSE, fecha |-> parts[1], hora |-> <<>>]
    ELSE [ok |-> TRUE, fecha |-> parts[1], hora |-> parts[2]]

\* let [fecha, hora] = ...; hora = hora.split('+')[0] of exportToExcel2,
\* on the pieces split('T') gave
MessageDateOfParts(parts) ==
    IF Len(parts) < 2 THEN [ok |-> FALSE, fecha |-> parts[1], hora |-> <<>>]
    ELSE [ok |-> TRUE, fecha |-> parts[1], hora |-> Split(parts[2], sPlus)[1]]

\* let [fecha, hora] = row.messageDate.split('T'); hora = hora.split('+')[0]
\* of exportToExcel2: [ok, fecha, hora]
MessageSplitDate(messageDate) ==
    IF messageDate.t # "str" THEN [ok |-> FALSE, fecha |-> <<>>, hora |-> <<>>]
    ELSE MessageDateOfParts(Split(messageDate.s, sT))

\* the exception the first lines of the map callback of exportToExcel2
\* throw on a record
MessageRowError(row) ==
    IF ParseThrows(row) THEN "SyntaxError"
    ELSE IF ~MessageSplitDate(row.messageDate).ok THEN "TypeError"
    ELSE "none"

\* the callback of this.data.map(...) in exportToExcel2, where it returns
MessageRow(row) ==
    FixedCells(row, MessageSplitDate(row.messageDate))
    \o << [k |-> sMensaje, v |-> Mensaje(BodyOf(row))],
          [k |-> sSend, v |-> row.sendType] >>

\* this.data.map(...) of exportToExcel2: [error, rows]
RECURSIVE MessageRowsFrom(_, _, _)
MessageRowsFrom(rows, d, i) ==
    IF i > Len(d) THEN [error |-> "none", rows |-> rows]
    ELSE IF MessageRowError(d[i]) # "none"
    THEN [error |-> MessageRowError(d[i]), rows |-> <<>>]
    ELSE MessageRowsFrom(Append(rows, MessageRow(d[i])), d, i + 1)

MessageRows(d) == MessageRowsFrom(<<>>, d, 1)

\* /\S/.test(dato.mensaje) && dato.send == 'input'
KeepInputMessage(dato) ==
    HasNonSpace(JSToString(Get(dato, sMensaje))) /\ Get(dato, sSend) = Str(sInput)

\* Mutant of KeepStringMessage: the second filter keeps every row
KeepStringMessage_Any(d) == TRUE

\* typeof d.mensaje == 'string'
KeepStringMessage(d) == Get(d, sMensaje).t = "str"

\* the two Array.prototype.filter calls of exportToExcel2
cleanFliterData(rows) == SelectSeq(rows, KeepInputMessage)
cleanMessageBlanck(rows) == SelectSeq(cleanFliterData(rows), KeepStringMessage)

\* ------------------------------------------------------------- workbook
\* XLSX.utils.json_to_sheet(rows): the header row is the rows' keys in
\* order of first appearance, the body is one line of cells per row
RECURSIVE AddRowKeys(_, _, _)
AddRowKeys(header, row, j) ==
    IF j > Len(row) THEN header
    ELSE AddRowKeys(SetAdd(header, row[j].k), row, j + 1)

RECURSIVE SheetHeader(_, _, _)
SheetHeader(header, rows, i) ==
    IF i > Len(rows) THEN header
    ELSE SheetHeader(AddRowKeys(header, rows[i], 1), rows, i + 1)

json_to_sheet(rows) == [header |-> SheetHeader(<<>>, rows, 1), rows |-> rows]

NoDownload == [name |-> "", sheet |-> json_to_sheet(<<>>)]

\* --------------------------------------------------------------- inputs
kA == <<97>>
kAB == <<97, 32, 98>>
kAX == <<97, 32, 124, 32, 120>>
vOk == Str(<<111, 107>>)
vX == Str(<<120>>)
vY == Str(<<121>>)
sDate == <<50, 48, 50, 52, 45, 48, 51, 45, 48, 49>>
sTime == <<49, 48, 58, 48, 48, 58, 48, 48>>
sPlusOffset == <<43, 48, 50, 58, 48, 48>>
sMinusOffset == <<45, 48, 53, 58, 48, 48>>
sZulu == <<90>>

vBom == Str(<<ByteOrderMark, ByteOrderMark, 111, 107>>)
ScalarValues == {vOk, Num(sZero), Str(<<>>)}
ListValues == {Arr(<<vX>>), Arr(<<vY, vX, vX>>), Arr(<<Num(<<53>>), Str(<<>>)>>)}

Flow(fr) == [kind |-> "flow", fr |-> fr, body |-> Undefined]
Body(b) == [kind |-> "body", fr |-> <<>>, body |-> b]
Other(kind) == [kind |-> kind, fr |-> <<>>, body |-> Undefined]

FlowResponses ==
    {<<[k |-> kA, v |-> v]>> : v \in ScalarValues \cup ListValues}
    \cup {<<[k |-> kAB, v |-> Arr(<<vX, Str(kA)>>)]>>,
          <<[k |-> kAX, v |-> vOk]>>,
          <<[k |-> sTelefono, v |-> vOk]>>,
          <<[k |-> kA, v |-> Arr(<<vX>>)], [k |-> kAB, v |-> vBom]>>}

Contents ==
    {Flow(fr) : fr \in FlowResponses}
    \cup {Other("badjson"), Other("null"), Other("neither")}
    \cup {Body(b) : b \in {Str(<<104, 101, 108, 108, 111>>), Str(<<32>>)}}

GoodDate == Str(sDate \o sT \o sTime \o sPlusOffset)
OtherDates ==
    {Str(sDate \o sT \o sTime \o off) : off \in {sMinusOffset, sZulu}}
    \cup {Str(sDate \o <<32>> \o sTime), Undefined}

Rec(id, date, send, content) ==
    [messageId |-> id, contactId |-> Str(<<99, 49>>), messageDate |-> date,
     sendType |-> send, content |-> content]

\* the records sheet_to_json may hand over: each content with a date that
\* carries a + offset, each other shape of messageDate with one content,
\* a record without messageId and offset, one with another sendType, and
\* a second message whose body starts with byte order marks
Records ==
    {Rec(Str(<<109, 49>>), GoodDate, Str(sInput), c) : c \in Contents}
    \cup {Rec(Str(<<109, 50>>), d, Str(sInput), Flow(<<[k |-> kA, v |-> vOk]>>)) :
             d \in OtherDates}
    \cup {Rec(Undefined, Str(sDate \o sT \o sTime), Str(sInput),
              Flow(<<[k |-> kA, v |-> vOk]>>)),
          Rec(Str(<<109, 51>>), GoodDate, Str(<<111, 117, 116>>),
              Body(Str(<<104, 101, 108, 108, 111>>))),
          Rec(Str(<<109, 50>>), GoodDate, Str(sInput), Body(vBom))}

DataSets == UNION {[1..n -> Records] : n \in 0..MaxRecords}

\* -------------------------------------------------------- state machine
\* The component as constructed (headerModel = {}, btnShow = false,
\* messageAlert = false) with `data` as some upload has left it.
Init ==
    /\ data \in DataSets
    /\ headerModel = <<>>
    /\ btnShow = FALSE
    /\ messageAlert = FALSE
    /\ readers = <<>>
    /\ selected = <<>>
    /\ loaded = <<>>
    /\ lastOp = "none"
    /\ threw = "none"
    /\ orderedHeaders = <<>>
    /\ filteredData = <<>>
    /\ download = NoDownload
    /\ textoOriginal = Str(<<>>)
    /\ salidas = <<>>
    /\ pc = "idle"
    /\ headerSet = <<>>
    /\ visited = 0

\* The result of a run up to the call of saveAs: error is the exception
\* that ends it ("none" when saveAs is reached), orderedHeaders and
\* filteredData are its locals, sheet is the worksheet written.
RunResult(error, headers, rows, written) ==
    [error |-> error, orderedHeaders |-> headers, filteredData |-> rows,
     sheet |-> json_to_sheet(written)]

FlowProjected(sorted, proj) == RunResult(proj.error, sorted, proj.rows, proj.rows)

FlowSorted(d, sorted) == FlowProjected(sorted, ProjectAll(d, sorted))

FlowDiscoveredHeaders(d, disc) ==
    IF ~disc.ok THEN RunResult("SyntaxError", <<>>, <<>>, <<>>)
    ELSE FlowSorted(d, SortHeaders(disc.headers))

\* The run of exportToExcel() on d up to the call of saveAs
FlowExport(d) == FlowDiscoveredHeaders(d, Discover(d))

MessageMapped(mapped) ==
    RunResult(mapped.error, <<>>, mapped.rows, cleanMessageBlanck(mapped.rows))

\* The run of exportToExcel2() on d up to the call of saveAs
MessageExport(d) == MessageMapped(MessageRows(d))

\* Mutant of exportToExcel: a failed export raises the alert flag
exportToExcel_Alerts ==
    \E r \in {FlowExport(data)} :
       /\ lastOp' = "exportToExcel"
       /\ threw' = r.error
       /\ orderedHeaders' = r.orderedHeaders
       /\ filteredData' = r.filteredData
       /\ download' = IF r.error = "none"
                      THEN [name |-> "flows_Exportados.xlsx", sheet |-> r.sheet]
                      ELSE download
       /\ messageAlert' = (r.error # "none")
       /\ UNCHANGED <<data, readers, selected, loaded, headerModel, btnShow, textoOriginal, salidas,
                      pc, headerSet, visited>>

\* exportToExcel(): threw is the exception the call ended in, in which
\* case saveAs was not reached; orderedHeaders and filteredData are the
\* call's locals as it left them.
exportToExcel ==
    \E r \in {FlowExport(data)} :
       /\ lastOp' = "exportToExcel"
       /\ threw' = r.error
       /\ orderedHeaders' = r.orderedHeaders
       /\ filteredData' = r.filteredData
       /\ download' = IF r.error = "none"
                      THEN [name |-> "flows_Exportados.xlsx", sheet |-> r.sheet]
                      ELSE download
       /\ UNCHANGED <<data, readers, selected, loaded, headerModel, btnShow, messageAlert, textoOriginal, salidas,
                      pc, headerSet, visited>>

\* Mutant of exportToExcel2: the exception is caught and what there is is
\* saved
exportToExcel2_SavesAnyway ==
    \E r \in {MessageExport(data)} :
       /\ lastOp' = "exportToExcel2"
       /\ threw' = r.error
       /\ orderedHeaders' = r.orderedHeaders
       /\ filteredData' = r.filteredData
       /\ download' = [name |-> "fallback_Exportados.xlsx", sheet |-> r.sheet]
       /\ UNCHANGED <<data, readers, selected, loaded, headerModel, btnShow, messageAlert, textoOriginal, salidas,
                      pc, headerSet, visited>>

\* exportToExcel2()
exportToExcel2 ==
    \E r \in {MessageExport(data)} :
       /\ lastOp' = "exportToExcel2"
       /\ threw' = r.error
       /\ orderedHeaders' = r.orderedHeaders
       /\ filteredData' = r.filteredData
       /\ download' = IF r.error = "none"
                      THEN [name |-> "fallback_Exportados.xlsx", sheet |-> r.sheet]
                      ELSE download
       /\ UNCHANGED <<data, readers, selected, loaded, headerModel, btnShow, messageAlert, textoOriginal, salidas,
                      pc, headerSet, visited>>

Next == exportToExcel \/ exportToExcel2

Spec == Init /\ [][Next]_vars

\* ------------------------------------------- corregirCodificacion alone
\* The code units the texts are made of: a, e acute, the euro sign, the
\* byte order mark, a high and a low surrogate.
TextUnits == {97, 233, 8364, ByteOrderMark, 55357, 56832}

RECURSIVE SeqsUpTo(_, _)
SeqsUpTo(S, n) ==
    IF n = 0 THEN {<<>>}
    ELSE SeqsUpTo(S, n - 1)
         \cup {Append(q, x) : q \in {r \in SeqsUpTo(S, n - 1) : Len(r) = n - 1}, x \in S}

Texts == {Str(q) : q \in SeqsUpTo(TextUnits, MaxTextLen)}

\* The component as constructed, with a text to be normalised; salidas
\* lists what the calls made so far have returned.
TextInit ==
    /\ textoOriginal \in Texts
    /\ salidas = <<>>
    /\ data = <<>>
    /\ headerModel = <<>>
    /\ btnShow = FALSE
    /\ messageAlert = FALSE
    /\ readers = <<>>
    /\ selected = <<>>
    /\ loaded = <<>>
    /\ lastOp = "none"
    /\ threw = "none"
    /\ orderedHeaders = <<>>
    /\ filteredData = <<>>
    /\ download = NoDownload
    /\ pc = "idle"
    /\ headerSet = <<>>
    /\ visited = 0

\* this.corregirCodificacion(...) called on the text, then on what the call
\* before returned
callCorregirCodificacion ==
    /\ Len(salidas) < MaxCalls
    /\ salidas' = Append(salidas,
                         corregirCodificacion(IF salidas = <<>> THEN textoOriginal
                                              ELSE salidas[Len(salidas)]))
    /\ UNCHANGED <<data, readers, selected, loaded, headerModel, btnShow, messageAlert, lastOp, threw,
                   orderedHeaders, filteredData, download, textoOriginal,
                   pc, headerSet, visited>>

TextNext == callCorregirCodificacion

TextSpec == TextInit /\ [][TextNext]_vars

\* ------------------------------------------- exportToExcel step by step
\* One call of exportToExcel() followed statement by statement. pc is the
\* statement the call is at: "idle" before the call, "discover" in
\* this.data.forEach, "project" in this.data.map, "done" after saveAs or
\* after an exception. headerSet is the Set `headers` of line 46, visited
\* the number of records the forEach callback has returned for, filteredData the
\* rows the map callback has returned so far.
unchangedFields == UNCHANGED <<data, readers, selected, loaded, headerModel, btnShow, messageAlert,
                               textoOriginal, salidas>>

\* const headers = new Set<string>()
enterExportToExcel ==
    /\ pc = "idle"
    /\ pc' = "discover"
    /\ lastOp' = "exportToExcel"
    /\ headerSet' = <<>>
    /\ visited' = 0
    /\ UNCHANGED <<threw, orderedHeaders, filteredData, download>>
    /\ unchangedFields

\* one call of the forEach callback
discoverRecord ==
    /\ pc = "discover"
    /\ visited < Len(data)
    /\ IF ParseThrows(data[visited + 1])
       THEN /\ pc' = "done"
            /\ threw' = "SyntaxError"
            /\ UNCHANGED <<headerSet, visited>>
       ELSE /\ headerSet' = AddKeyHeaders(headerSet, FlowResponseOf(data[visited + 1]), 1)
            /\ visited' = visited + 1
            /\ UNCHANGED <<pc, threw>>
    /\ UNCHANGED <<lastOp, orderedHeaders, filteredData, download>>
    /\ unchangedFields

\* Mutant of sortHeaders: the catalog is taken before the forEach is over
sortHeaders_Early ==
    /\ pc = "discover"
    /\ visited >= 1
    /\ orderedHeaders' = SortHeaders(headerSet)
    /\ pc' = "project"
    /\ UNCHANGED <<lastOp, threw, headerSet, visited, filteredData, download>>
    /\ unchangedFields

\* const orderedHeaders = Array.from(headers).sort(), once forEach is over
sortHeaders ==
    /\ pc = "discover"
    /\ visited = Len(data)
    /\ orderedHeaders' = SortHeaders(headerSet)
    /\ pc' = "project"
    /\ UNCHANGED <<lastOp, threw, headerSet, visited, filteredData, download>>
    /\ unchangedFields

\* one call of the map callback
projectRecord ==
    /\ pc = "project"
    /\ Len(filteredData) < Len(data)
    /\ \E row \in {data[Len(filteredData) + 1]} :
          IF RowError(row) # "none"
          THEN /\ pc' = "done"
               /\ threw' = RowError(row)
               /\ filteredData' = <<>>
          ELSE /\ filteredData' = Append(filteredData, ProjectRow(row, orderedHeaders))
               /\ UNCHANGED <<pc, threw>>
    /\ UNCHANGED <<lastOp, orderedHeaders, headerSet, visited, download>>
    /\ unchangedFields

\* json_to_sheet(filteredData) ... saveAs(dataBlob, 'flows_Exportados.xlsx')
saveWorkbook ==
    /\ pc = "project"
    /\ Len(filteredData) = Len(data)
    /\ download' = [name |-> "flows_Exportados.xlsx", sheet |-> json_to_sheet(filteredData)]
    /\ pc' = "done"
    /\ UNCHANGED <<lastOp, threw, orderedHeaders, headerSet, visited, filteredData>>
    /\ unchangedFields

StepNext ==
    \/ enterExportToExcel
    \/ discoverRecord
    \/ sortHeaders
    \/ projectRecord
    \/ saveWorkbook

StepSpec == Init /\ [][StepNext]_vars

\* ------------------------------------------------------------ file load
\* A file is [bytes, rows]: its content, and the records of the first
\* sheet of the workbook XLSX.read makes of its text (for bytes that are
\* not UTF-8, of the text a decoder that is not fatal gives).
File(bytes, rows) == [bytes |-> bytes, rows |-> rows]

\* the files the user may pick: three of well-formed UTF-8 (one record,
\* two records, a sheet without records) and two whose bytes are not
\* UTF-8 (a lone lead byte, a byte that is never valid)
Files ==
    {File(<<97>>, <<Rec(Str(<<109, 49>>), GoodDate, Str(sInput),
                        Flow(<<[k |-> kA, v |-> vOk]>>))>>),
     File(<<195, 169>>, <<Rec(Str(<<109, 49>>), GoodDate, Str(sInput),
                              Body(Str(<<104, 101, 108, 108, 111>>))),
                          Rec(Str(<<109, 50>>), GoodDate, Str(sInput), Other("badjson"))>>),
     File(<<104>>, <<>>),
     File(<<195>>, <<Rec(Str(<<109, 51>>), GoodDate, Str(sInput), Other("null"))>>),
     File(<<97, 255>>, <<Rec(Str(<<109, 49>>), GoodDate, Str(sInput),
                             Flow(<<[k |-> kA, v |-> vOk]>>))>>)}

\* event.target.files: a FileList of no file or of one
FileLists == {<<>>} \cup {<<f>> : f \in Files}

\* XLSX.utils.sheet_to_json(workbook.Sheets[workbook.SheetNames[0]])
sheet_to_json(file) == file.rows

\* q without its i-th element
Without(q, i) == SubSeq(q, 1, i - 1) \o SubSeq(q, i + 1, Len(q))

\* The component as constructed, before any file is picked.
LoadInit ==
    /\ data = <<>>
    /\ headerModel = <<>>
    /\ btnShow = FALSE
    /\ messageAlert = FALSE
    /\ readers = <<>>
    /\ selected = <<>>
    /\ loaded = <<>>
    /\ lastOp = "none"
    /\ threw = "none"
    /\ orderedHeaders = <<>>
    /\ filteredData = <<>>
    /\ download = NoDownload
    /\ textoOriginal = Str(<<>>)
    /\ salidas = <<>>
    /\ pc = "idle"
    /\ headerSet = <<>>
    /\ visited = 0

\* Mutant of onFileChange: the file is read synchronously and data is
\* assigned before the handler returns
onFileChange_Synchronous ==
    \E files \in FileLists :
       /\ files # <<>> => Len(readers) < MaxReaders
       /\ btnShow' = FALSE
       /\ selected' = files
       /\ readers' = readers
       /\ data' = IF files # <<>> /\ TextDecoderDecode(files[1].bytes).ok
                  THEN sheet_to_json(files[1]) ELSE data
       /\ loaded' = IF files # <<>> /\ TextDecoderDecode(files[1].bytes).ok
                    THEN files ELSE loaded
       /\ lastOp' = "onFileChange"
       /\ UNCHANGED <<headerModel, messageAlert, threw, orderedHeaders,
                      filteredData, download, textoOriginal, salidas, pc, headerSet,
                      visited>>

\* onFileChange(event, tipo): files is event.target.files. With a file a
\* FileReader is created and started; its onload runs in a later step.
\* selected keeps the FileList of the last call.
onFileChange ==
    \E files \in FileLists :
       /\ files # <<>> => Len(readers) < MaxReaders
       /\ btnShow' = FALSE
       /\ selected' = files
       /\ readers' = IF files # <<>> THEN Append(readers, files[1]) ELSE readers
       /\ lastOp' = "onFileChange"
       /\ UNCHANGED <<data, loaded, headerModel, messageAlert, threw, orderedHeaders,
                      filteredData, download, textoOriginal, salidas, pc, headerSet,
                      visited>>

\* Mutant of readerOnload: the decoder is not fatal, so malformed bytes
\* decode to replacement characters and the result is loaded
readerOnload_NotFatal ==
    \E i \in 1..Len(readers) :
       /\ readers' = Without(readers, i)
       /\ lastOp' = "onload"
       /\ threw' = "none"
       /\ data' = sheet_to_json(readers[i])
       /\ loaded' = <<readers[i]>>
       /\ UNCHANGED <<selected, headerModel, btnShow, messageAlert, orderedHeaders,
                      filteredData, download, textoOriginal, salidas, pc, headerSet,
                      visited>>

\* reader.onload of one of the pending FileReaders, in any order: the
\* fatal decoder throws a TypeError on bytes that are not UTF-8, before
\* data is assigned. loaded keeps the file of the last callback that
\* assigned data.
readerOnload ==
    \E i \in 1..Len(readers) :
       \E r \in {TextDecoderDecode(readers[i].bytes)} :
          /\ readers' = Without(readers, i)
          /\ lastOp' = "onload"
          /\ threw' = IF r.ok THEN "none" ELSE "TypeError"
          /\ data' = IF r.ok THEN sheet_to_json(readers[i]) ELSE data
          /\ loaded' = IF r.ok THEN <<readers[i]>> ELSE loaded
          /\ UNCHANGED <<selected, headerModel, btnShow, messageAlert, orderedHeaders,
                         filteredData, download, textoOriginal, salidas, pc, headerSet,
                         visited>>

LoadNext == onFileChange \/ readerOnload \/ exportToExcel \/ exportToExcel2

LoadSpec == LoadInit /\ [][LoadNext]_vars

\* ================================================================ claims
FixedKeys == {sMessageId, sTelefono, sFecha, sHora}

\* the last call was exportToExcel and it reached saveAs
FlowSaved == lastOp = "exportToExcel" /\ threw = "none"
\* the last call was exportToExcel and its discovery pass completed
FlowDiscovered == lastOp = "exportToExcel" /\ threw # "SyntaxError"

IsScalar(v) == v.t \in {"str", "num", "bool"}

\* The columns the data calls for, read off the records themselves:
\* [key, item, header] for every item of every list, and [key, header] for
\* every key.
IndicatorColumns(d) ==
    {[key |-> FlowResponseOf(d[i])[j].k,
      item |-> FlowResponseOf(d[i])[j].v.a[p],
      header |-> IndicatorHeader(FlowResponseOf(d[i])[j].k, FlowResponseOf(d[i])[j].v.a[p])] :
        <<i, j, p>> \in {t \in (1..Len(d)) \X (1..2) \X (1..3) :
                            /\ t[2] <= Len(FlowResponseOf(d[t[1]]))
                            /\ IsArray(FlowResponseOf(d[t[1]])[t[2]].v)
                            /\ t[3] <= Len(FlowResponseOf(d[t[1]])[t[2]].v.a)}}

KeysOf(d) == UNION {KeySet(FlowResponseOf(d[i])) : i \in 1..Len(d)}

Occurrences(seq, x) == Cardinality({n \in 1..Len(seq) : seq[n] = x})
Pos(seq, x) == CHOOSE n \in 1..Len(seq) : seq[n] = x
HasList(row, key) == IsArray(Get(FlowResponseOf(row), key))
ListHolds(row, key, item) ==
    HasList(row, key)
    /\ \E p \in 1..Len(Get(FlowResponseOf(row), key).a) : Get(FlowResponseOf(row), key).a[p] = item

\* the list items of the data are option labels: non-empty strings
LabelItems(d) == \A c \in IndicatorColumns(d) : c.item.t = "str" /\ c.item.s # <<>>

\* C1 (as claimed, on data whose list items are option labels): every row
\* of the flow export has exactly one key per catalog column besides the
\* four fixed keys: the fixed keys are among its keys and it has as many
\* keys as the catalog has columns, plus four.
C1_RowCompleteness ==
    (FlowSaved /\ LabelItems(data)) =>
        \A i \in 1..Len(filteredData) :
            /\ FixedKeys \subseteq KeySet(filteredData[i])
            /\ Cardinality(KeySet(filteredData[i]))
                 = Cardinality(FixedKeys) + Len(orderedHeaders)

\* C2: after the discovery pass, for every key that holds a list in some
\* record and every item of any such list, the catalog holds the header
\* key | item exactly once, however often the item is repeated.
C2_CatalogCompleteness ==
    FlowDiscovered =>
        \A c \in IndicatorColumns(data) : Occurrences(orderedHeaders, c.header) = 1

\* C2 witness: discovery completed on data where one list repeats an item
\* and another record's list under the same key holds that item too.
C2_Witness ==
    /\ FlowDiscovered
    /\ \E i, i2 \in 1..Len(data) :
          /\ i # i2
          /\ FlowResponseOf(data[i]) # <<>> /\ FlowResponseOf(data[i2]) # <<>>
          /\ LET e == FlowResponseOf(data[i])[1]
                 e2 == FlowResponseOf(data[i2])[1]
             IN /\ e.k = e2.k /\ IsArray(e.v) /\ IsArray(e2.v)
                /\ \E p, q \in 1..Len(e.v.a) : p # q /\ e.v.a[p] = e.v.a[q]
                      /\ \E q2 \in 1..Len(e2.v.a) : e2.v.a[q2] = e.v.a[p]

\* C3 (as claimed, on data whose list items are option labels): for every
\* record and every indicator column (key, item), the row's cell named by
\* the item is "X" if the record holds a list under key that contains
\* item, and the empty string otherwise.
C3_IndicatorProjection ==
    (FlowSaved /\ LabelItems(data)) =>
        \A i \in 1..Len(data) : \A c \in IndicatorColumns(data) :
            Get(filteredData[i], JSToString(c.item))
              = IF ListHolds(data[i], c.key, c.item) THEN Str(sX) ELSE Str(<<>>)

\* C4 (as claimed): for every record and every key of the catalog, the
\* row's cell for the key is corregirCodificacion(value) when the record
\* holds a scalar value under the key (0, false and "" included) and the
\* empty string when the record has no such key.
C4_ScalarProjection ==
    FlowSaved =>
        \A i \in 1..Len(data) : \A key \in KeysOf(data) :
            LET value == Get(FlowResponseOf(data[i]), key)
            IN /\ IsScalar(value) =>
                    Get(filteredData[i], key) = corregirCodificacion(value)
               /\ ~HasOwn(FlowResponseOf(data[i]), key) =>
                    Get(filteredData[i], key) = Str(<<>>)

\* C5 (as claimed, for a non-empty string scalar and option labels): when
\* a key holds a scalar in record i and a list in record i2, the catalog
\* has the key's scalar column and its indicator columns; row i has the
\* scalar cell filled and the indicator cells blank; row i2 has the scalar
\* cell blank and "X" in the cells of the items it lists.
C5_TypeMismatch ==
    (FlowSaved /\ LabelItems(data)) =>
        \A i, i2 \in 1..Len(data) : \A key \in KeysOf(data) :
            (/\ Get(FlowResponseOf(data[i]), key).t = "str"
             /\ Get(FlowResponseOf(data[i]), key).s # <<>>
             /\ HasList(data[i2], key)) =>
                LET items == Get(FlowResponseOf(data[i2]), key).a
                IN /\ Occurrences(orderedHeaders, key) = 1
                   /\ \A p \in 1..Len(items) :
                         /\ Occurrences(orderedHeaders, IndicatorHeader(key, items[p])) = 1
                         /\ Get(filteredData[i], JSToString(items[p])) = Str(<<>>)
                         /\ Get(filteredData[i2], JSToString(items[p])) = Str(sX)
                   /\ Get(filteredData[i], key)
                        = corregirCodificacion(Get(FlowResponseOf(data[i]), key))
                   /\ Get(filteredData[i2], key) = Str(<<>>)

\* data without the records whose content JSON.parse rejects
RECURSIVE WithoutBadJson(_)
WithoutBadJson(d) ==
    IF d = <<>> THEN <<>>
    ELSE (IF ParseThrows(d[1]) THEN <<>> ELSE <<d[1]>>) \o WithoutBadJson(Tail(d))

HasSeparatorT(messageDate) == \E n \in 1..Len(messageDate.s) : messageDate.s[n] = 84

\* C6 (as claimed): when a record's content is not valid JSON and the other
\* records are well formed, the flow export still reaches saveAs, and its
\* catalog and rows are those of the export of the other records alone.
C6_ParseFailureNotFatal ==
    (/\ lastOp = "exportToExcel"
     /\ \E i \in 1..Len(data) : ParseThrows(data[i])
     /\ FlowExport(WithoutBadJson(data)).error = "none") =>
        /\ threw = "none"
        /\ orderedHeaders = FlowExport(WithoutBadJson(data)).orderedHeaders
        /\ filteredData = FlowExport(WithoutBadJson(data)).filteredData

\* C7 (as claimed): when every content parses and every messageDate is a
\* string, some without the separator 'T', the flow export still reaches
\* saveAs with one row per record, and the row of a record without 'T'
\* carries the raw messageDate in its date cell.
C7_MalformedDateNotFatal ==
    (/\ lastOp = "exportToExcel"
     /\ \A i \in 1..Len(data) : ~ParseThrows(data[i]) /\ data[i].messageDate.t = "str"
     /\ \E i \in 1..Len(data) : ~HasSeparatorT(data[i].messageDate)) =>
        /\ threw = "none"
        /\ Len(filteredData) = Len(data)
        /\ \A i \in 1..Len(data) :
              ~HasSeparatorT(data[i].messageDate) =>
                  Get(filteredData[i], sFecha) = data[i].messageDate

TimezoneOffsets == {<<>>, sPlusOffset, sMinusOffset, sZulu}

\* C8 (as claimed): a messageDate <date>T<time><offset>, the offset being
\* absent, +hh:mm, -hh:mm or Z, gives the date cell <date> and the time
\* cell <time>.
C8_DateTimeSplit ==
    FlowSaved =>
        \A i \in 1..Len(data) : \A off \in TimezoneOffsets :
            data[i].messageDate = Str(sDate \o sT \o sTime \o off) =>
                /\ Get(filteredData[i], sFecha) = Str(sDate)
                /\ Get(filteredData[i], sHora) = Str(sTime)

Permuted(d, p) == [i \in 1..Len(d) |-> d[p[i]]]

\* C9: for every permutation of the loaded records, the flow export of
\* the permuted records ends the same way, yields the same ordered
\* catalog and, for each record, the same row as the export of the
\* records as loaded.
C9_Determinism ==
    lastOp = "exportToExcel" =>
        \A p \in Permutations(1..Len(data)) :
            \A r \in {FlowExport(Permuted(data, p))} :
                /\ r.error = threw
                /\ r.orderedHeaders = orderedHeaders
                /\ Len(r.filteredData) = Len(filteredData)
                /\ \A i \in 1..Len(r.filteredData) : r.filteredData[i] = filteredData[p[i]]

\* C9 witness: an export reached saveAs on two different records whose
\* headers were met in another order than the catalog's.
C9_Witness ==
    /\ FlowSaved
    /\ Len(data) >= 2
    /\ data[1] # data[2]
    /\ filteredData[1] # filteredData[2]
    /\ Discover(data).headers # orderedHeaders
    /\ Discover(Permuted(data, [i \in 1..Len(data) |-> Len(data) + 1 - i])).headers
         # Discover(data).headers

\* every key of the data as a column [key, header], with the indicator
\* columns
ColumnsOf(d) ==
    {[key |-> k, header |-> k] : k \in KeysOf(d)}
    \cup {[key |-> c.key, header |-> c.header] : c \in IndicatorColumns(d)}

\* C10 (as claimed): of two catalog columns the one with the smaller key
\* comes first, so that the columns of one key are contiguous.
C10_KeyThenValueOrder ==
    FlowDiscovered =>
        \A c1, c2 \in ColumnsOf(data) :
            StrLess(c1.key, c2.key) =>
                Pos(orderedHeaders, c1.header) < Pos(orderedHeaders, c2.header)

\* C10 (amended): the catalog is strictly ascending by header string (the
\* key of a scalar column, key | item of an indicator column) in UTF-16
\* code unit order; hence among the columns of one key the bare key comes
\* first and the indicator columns follow in the order of their items.
C10_HeaderStringOrder ==
    FlowDiscovered =>
        /\ \A m, n \in 1..Len(orderedHeaders) :
              m < n => StrLess(orderedHeaders[m], orderedHeaders[n])
        /\ \A c1, c2 \in IndicatorColumns(data) :
              c1.key = c2.key =>
                  /\ Pos(orderedHeaders, c1.key) < Pos(orderedHeaders, c1.header)
                  /\ StrLess(JSToString(c1.item), JSToString(c2.item)) =>
                        Pos(orderedHeaders, c1.header) < Pos(orderedHeaders, c2.header)

\* C10 witness: a catalog with two indicator columns of one key and the
\* columns of a second key, discovered in another order.
C10_Witness ==
    /\ FlowDiscovered
    /\ Discover(data).headers # orderedHeaders
    /\ Cardinality(KeysOf(data)) >= 2
    /\ \E c1, c2 \in IndicatorColumns(data) : c1.key = c2.key /\ c1.header # c2.header

\* key holds a scalar in some record of d
ScalarSomewhere(d, key) ==
    \E i \in 1..Len(d) : IsScalar(Get(FlowResponseOf(d[i]), key))

\* key holds a list in every record of d where it appears
ListEverywhere(d, key) ==
    \A i \in 1..Len(d) : HasOwn(FlowResponseOf(d[i]), key) => HasList(d[i], key)

\* C11 (as claimed): the catalog holds the scalar column of a key exactly
\* once when the key holds a scalar in some record, and not at all when
\* the key holds a list in every record where it appears.
C11_ScalarRegistration ==
    FlowDiscovered =>
        \A key \in KeysOf(data) :
            /\ ScalarSomewhere(data, key) => Occurrences(orderedHeaders, key) = 1
            /\ ListEverywhere(data, key) => Occurrences(orderedHeaders, key) = 0

\* C11 (amended): the catalog holds the bare key exactly once for every
\* key that appears in some record's flowResponse, whatever it holds; a
\* key that holds only lists has its bare column beside its indicator
\* columns.
C11_KeyRegistration ==
    FlowDiscovered =>
        \A key \in KeysOf(data) : Occurrences(orderedHeaders, key) = 1

\* C11 witness: discovery completed on data where one key holds a scalar
\* in two records and another key holds lists only.
C11_Witness ==
    /\ FlowDiscovered
    /\ \E key \in KeysOf(data) :
          Cardinality({i \in 1..Len(data) : IsScalar(Get(FlowResponseOf(data[i]), key))}) = 2
    /\ \E key \in KeysOf(data) : ListEverywhere(data, key)

\* the fixed leading columns, in the order formattedRow is built
FixedHeader == <<sMessageId, sTelefono, sFecha, sHora>>

\* C12 (as claimed): a flow export of zero records reaches saveAs, and the
\* sheet it writes has no rows and the fixed leading columns as header.
C12_EmptyInput ==
    (lastOp = "exportToExcel" /\ data = <<>>) =>
        /\ threw = "none"
        /\ download.name = "flows_Exportados.xlsx"
        /\ download.sheet.rows = <<>>
        /\ download.sheet.header = FixedHeader

\* the parsed content of the record has no eventParameters.flowResponse
NoFlowResponse(row) == row.content.kind \in {"null", "body", "neither"}

RemoveAt(d, i) == SubSeq(d, 1, i - 1) \o SubSeq(d, i + 1, Len(d))

\* the names of the cells the data's columns are written to: the key of
\* a scalar column, the item of an indicator column
CellNames(d) ==
    KeysOf(d) \cup {JSToString(c.item) : c \in {x \in IndicatorColumns(d) : JSToString(x.item) # <<>>}}

\* no key of the data holds the separator " | "
PlainKeys(d) == \A key \in KeysOf(d) : Len(Split(key, sSeparator)) = 1

\* C13 (as claimed, on data whose keys hold no separator and whose list
\* items are option labels): in a flow export that reaches saveAs, a
\* record without flowResponse adds nothing to the catalog (the catalog
\* is that of the other records), every discovered cell of its row is the
\* empty string, and its fixed cells are those of the record.
C13_ShapeMismatch ==
    (FlowSaved /\ PlainKeys(data) /\ LabelItems(data)) =>
        \A i \in 1..Len(data) :
            NoFlowResponse(data[i]) =>
                /\ orderedHeaders = SortHeaders(Discover(RemoveAt(data, i)).headers)
                /\ \A name \in CellNames(data) \ FixedKeys :
                      Get(filteredData[i], name) = Str(<<>>)
                /\ \A j \in 1..4 :
                      Get(filteredData[i], FixedHeader[j])
                        = FixedCells(data[i], SplitDate(data[i].messageDate))[j].v

\* C14: a flow export that reaches saveAs writes exactly one row per
\* loaded record, and the i-th row written is the projection of the i-th
\* record against the catalog: nothing is filtered or reordered between
\* the records and the sheet.
C14_OneRowPerRecord ==
    FlowSaved =>
        /\ Len(download.sheet.rows) = Len(data)
        /\ \A i \in 1..Len(data) :
              download.sheet.rows[i] = ProjectRow(data[i], orderedHeaders)

\* C14 witness: an export wrote two different rows, the first for a record
\* without answers, the second for a record with answers.
C14_Witness ==
    /\ FlowSaved
    /\ Len(data) = 2
    /\ FlowResponseOf(data[1]) = <<>>
    /\ FlowResponseOf(data[2]) # <<>>
    /\ data[1].messageId # data[2].messageId
    /\ Len(download.sheet.rows) = 2
    /\ download.sheet.rows[1] # download.sheet.rows[2]

\* the data's columns as [header, name]: the catalog header of the column
\* and the name of the cell it is written to
NamedColumns(d) ==
    {[header |-> k, name |-> k] : k \in KeysOf(d)}
    \cup {[header |-> c.header, name |-> JSToString(c.item)] : c \in IndicatorColumns(d)}

\* the cell names of the catalog's columns, in catalog order
CatalogNames(d, headers) ==
    [j \in 1..Len(headers) |-> (CHOOSE c \in NamedColumns(d) : c.header = headers[j]).name]

\* every list item of the data has a non-empty string form
NamedItems(d) == \A c \in IndicatorColumns(d) : JSToString(c.item) # <<>>

\* C15 (as claimed, on data whose keys hold no separator and whose items
\* have names): in a flow export that reaches saveAs with some record,
\* the sheet's header is the fixed columns followed by one name per
\* catalog column in catalog order, and the keys of every row are in that
\* same order.
C15_HeaderOrder ==
    (FlowSaved /\ data # <<>> /\ PlainKeys(data) /\ NamedItems(data)) =>
        /\ download.sheet.header = FixedHeader \o CatalogNames(data, orderedHeaders)
        /\ \A i \in 1..Len(filteredData) :
              Keys(filteredData[i]) = FixedHeader \o CatalogNames(data, orderedHeaders)

\* C16 (as claimed): in a flow export that reaches saveAs, whatever the
\* payloads hold, every row's messageId cell is the record's messageId
\* (the empty string when the record has none) and its telefono cell is
\* the record's contactId.
C16_FixedColumnsPassThrough ==
    FlowSaved =>
        \A i \in 1..Len(data) :
            /\ Get(filteredData[i], sMessageId) = OrElse(data[i].messageId, Str(<<>>))
            /\ Get(filteredData[i], sTelefono) = data[i].contactId

\* C17 (as claimed): corregirCodificacion called on its own result
\* returns that result again.
C17_IdempotentNormalization ==
    Len(salidas) >= 2 => salidas[2] = salidas[1]

IsSurrogate(c) == IsHighSurrogate(c) \/ IsLowSurrogate(c)

\* the text is well-formed UTF-16: every surrogate is half of a pair
WellFormedText(s) ==
    \A n \in 1..Len(s) :
        /\ IsHighSurrogate(s[n]) => (n < Len(s) /\ IsLowSurrogate(s[n + 1]))
        /\ IsLowSurrogate(s[n]) => (n > 1 /\ IsHighSurrogate(s[n - 1]))

\* C18 (as claimed): corregirCodificacion returns a correctly encoded
\* text unchanged.
C18_NormalizationNoOp ==
    (Len(salidas) >= 1 /\ WellFormedText(textoOriginal.s)) => salidas[1] = textoOriginal

\* C19: in every run of the flow export, once a row is projected the
\* discovery pass has visited every record and the catalog is the sorted
\* set of all headers; every row projected so far is the projection of
\* its record against that catalog; and no step taken while rows are
\* projected changes the catalog.
C19_TwoPhaseOrdering ==
    /\ [](Len(filteredData) > 0 =>
            /\ visited = Len(data)
            /\ orderedHeaders = SortHeaders(Discover(data).headers)
            /\ \A i \in 1..Len(filteredData) :
                  filteredData[i] = ProjectRow(data[i], orderedHeaders))
    /\ [][pc = "project" => orderedHeaders' = orderedHeaders]_vars

\* C19 witness: the second row is projected, on two records that bring
\* different headers, the second of them new to the catalog.
C19_Witness ==
    /\ pc = "project"
    /\ Len(filteredData) = 2
    /\ Discover(<<data[1]>>).headers # <<>>
    /\ \E n \in 1..Len(Discover(<<data[2]>>).headers) :
          \A m \in 1..Len(Discover(<<data[1]>>).headers) :
              Discover(<<data[2]>>).headers[n] # Discover(<<data[1]>>).headers[m]

\* the records of d whose index is in S, in d's order
RECURSIVE ShardFrom(_, _, _)
ShardFrom(d, S, i) ==
    IF i > Len(d) THEN <<>>
    ELSE (IF i \in S THEN <<d[i]>> ELSE <<>>) \o ShardFrom(d, S, i + 1)

Shard(d, S) == ShardFrom(d, S, 1)

\* the ordered catalog the discovery pass and the sort give for d
CatalogOf(d) == SortHeaders(Discover(d).headers)

SetOfSeq(q) == {q[n] : n \in 1..Len(q)}

\* C20: when the discovery pass completes, for every split of the loaded
\* records into shards A and B the catalog holds exactly the headers of
\* the catalog of A and of the catalog of B, each once and in ascending
\* order, and it is the catalog discovered over A followed by B and over
\* B followed by A.
C20_DiscoverySetUnion ==
    FlowDiscovered =>
        /\ \A m, n \in 1..Len(orderedHeaders) :
              m < n => StrLess(orderedHeaders[m], orderedHeaders[n])
        /\ \A S \in SUBSET (1..Len(data)) :
              LET A == Shard(data, S)
                  B == Shard(data, (1..Len(data)) \ S)
              IN /\ SetOfSeq(orderedHeaders)
                      = SetOfSeq(CatalogOf(A)) \cup SetOfSeq(CatalogOf(B))
                 /\ CatalogOf(A \o B) = orderedHeaders
                 /\ CatalogOf(B \o A) = orderedHeaders

\* C20 witness: discovery completed on two records whose catalogs share a
\* header and each hold a header the other lacks.
C20_Witness ==
    /\ FlowDiscovered
    /\ Len(data) = 2
    /\ SetOfSeq(CatalogOf(<<data[1]>>)) \cap SetOfSeq(CatalogOf(<<data[2]>>)) # {}
    /\ SetOfSeq(CatalogOf(<<data[1]>>)) \ SetOfSeq(CatalogOf(<<data[2]>>)) # {}
    /\ SetOfSeq(CatalogOf(<<data[2]>>)) \ SetOfSeq(CatalogOf(<<data[1]>>)) # {}

\* the step is a call of exportToExcel or of exportToExcel2
ExportStep == lastOp' \in {"exportToExcel", "exportToExcel2"}

\* C21: a step of exportToExcel or exportToExcel2 leaves data,
\* headerModel, btnShow and messageAlert as they were, and an export that
\* follows the same export leaves the outcome (exception, catalog, rows,
\* saved document) as that one left it.
C21_NoSideEffects ==
    [][ExportStep =>
          /\ data' = data
          /\ headerModel' = headerModel
          /\ btnShow' = btnShow
          /\ messageAlert' = messageAlert
          /\ lastOp' = lastOp =>
                /\ threw' = threw
                /\ orderedHeaders' = orderedHeaders
                /\ filteredData' = filteredData
                /\ download' = download]_vars

\* C21 witness: an export has saved a two-row document and the two
\* records and the flags are as they were loaded and constructed.
C21_Witness ==
    /\ lastOp \in {"exportToExcel", "exportToExcel2"}
    /\ threw = "none"
    /\ Len(data) = 2
    /\ Len(download.sheet.rows) = 2
    /\ headerModel = <<>> /\ ~btnShow /\ ~messageAlert

\* every content of d parses
AllParse(d) == \A i \in 1..Len(d) : ~ParseThrows(d[i])

\* C22: on records whose contents parse, the message export ends in a
\* TypeError exactly when the date split of the flow export fails on some
\* record's messageDate, and otherwise the fecha and hora cells of each of
\* its rows are the ones the flow export's split gives for that record.
C22_SharedDateSplitting ==
    (lastOp = "exportToExcel2" /\ AllParse(data)) =>
        /\ threw = "TypeError" <=> \E i \in 1..Len(data) : ~SplitDate(data[i].messageDate).ok
        /\ threw = "none" =>
              /\ Len(filteredData) = Len(data)
              /\ \A i \in 1..Len(data) :
                    /\ Get(filteredData[i], sFecha)
                         = FixedCells(data[i], SplitDate(data[i].messageDate))[3].v
                    /\ Get(filteredData[i], sHora)
                         = FixedCells(data[i], SplitDate(data[i].messageDate))[4].v

\* C22 witness: a message export mapped two records, one whose messageDate
\* carries a + offset and one without offset.
C22_Witness ==
    /\ lastOp = "exportToExcel2"
    /\ threw = "none"
    /\ Len(filteredData) = 2
    /\ data[1].messageDate = GoodDate
    /\ data[2].messageDate = Str(sDate \o sT \o sTime)

\* C23: in a flow export that reaches saveAs, every two rows have the
\* same keys in the same order.
C23_RowAlignment ==
    FlowSaved =>
        \A i, j \in 1..Len(filteredData) : Keys(filteredData[i]) = Keys(filteredData[j])

\* C23 witness: an export wrote a row for a record with answers and a row
\* for a record without flowResponse, against a catalog of several
\* columns.
C23_Witness ==
    /\ FlowSaved
    /\ Len(filteredData) = 2
    /\ Len(orderedHeaders) >= 2
    /\ FlowResponseOf(data[1]) # <<>>
    /\ NoFlowResponse(data[2])

\* C24 (as claimed, on data whose list items are option labels): when two
\* keys list the same item somewhere in the data, a record that lists the
\* item under the first key and not under the second has "X" in the
\* item's cell; and a record that lists an item named like another key
\* has "X" in the item's cell whatever that key's scalar column holds.
C24_IndicatorCellsDoNotInterfere ==
    (FlowSaved /\ LabelItems(data)) =>
        \A i \in 1..Len(data) : \A c1 \in IndicatorColumns(data) :
            ListHolds(data[i], c1.key, c1.item) =>
                /\ \A c2 \in IndicatorColumns(data) :
                      (/\ c2.key # c1.key
                       /\ c2.item = c1.item
                       /\ ~ListHolds(data[i], c2.key, c2.item)) =>
                           Get(filteredData[i], c1.item.s) = Str(sX)
                /\ \A key \in KeysOf(data) :
                      (key # c1.key /\ key = c1.item.s) =>
                          Get(filteredData[i], c1.item.s) = Str(sX)

\* C25 (as claimed): after the discovery pass, the header of every
\* indicator column (key, item) of the data is split by the projection
\* into that key and that item, the header of every key into the key and
\* no item, and no indicator column has the header of a key.
C25_HeaderRoundTrip ==
    FlowDiscovered =>
        /\ \A c \in IndicatorColumns(data) :
              /\ SplitHeader(c.header).baseKey = c.key
              /\ SplitHeader(c.header).arrayItem = c.item
        /\ \A key \in KeysOf(data) :
              /\ SplitHeader(key).baseKey = key
              /\ SplitHeader(key).arrayItem = Undefined
        /\ \A c \in IndicatorColumns(data) : c.header \notin KeysOf(data)

\* the record makes an export throw: its content is not JSON, or its
\* messageDate is missing or has no 'T'
Throwing(row) == ParseThrows(row) \/ ~SplitDate(row.messageDate).ok

\* C26: a step of exportToExcel or exportToExcel2 on data that holds a
\* throwing record ends in an exception and leaves the saved document and
\* the data as they were.
C26_AllOrNothing ==
    [][(ExportStep /\ \E i \in 1..Len(data) : Throwing(data[i])) =>
          /\ threw' # "none"
          /\ download' = download
          /\ data' = data]_vars

\* C26 witness: an export threw on two records of which the first is well
\* formed, and nothing is saved.
C26_Witness ==
    /\ lastOp \in {"exportToExcel", "exportToExcel2"}
    /\ threw # "none"
    /\ Len(data) = 2
    /\ ~Throwing(data[1])
    /\ Throwing(data[2])
    /\ download = NoDownload

\* the record has send 'input' and a string body whose normalised form
\* holds a character that is not white space
Qualifies(row) ==
    /\ row.sendType = Str(sInput)
    /\ row.content.kind = "body"
    /\ row.content.body.t = "str"
    /\ HasNonSpace(corregirCodificacion(row.content.body).s)

\* C27: a message export that reaches saveAs writes one row for each
\* qualifying record and no other, in the order of the records; the row
\* carries the record's messageId, send 'input' and the normalised body
\* as mensaje.
C27_MessageExportFilter ==
    (lastOp = "exportToExcel2" /\ threw = "none") =>
        /\ download.name = "fallback_Exportados.xlsx"
        /\ Len(download.sheet.rows) = Len(SelectSeq(data, Qualifies))
        /\ \A n \in 1..Len(download.sheet.rows) :
              /\ Get(download.sheet.rows[n], sMessageId)
                   = OrElse(SelectSeq(data, Qualifies)[n].messageId, Str(<<>>))
              /\ Get(download.sheet.rows[n], sSend) = Str(sInput)
              /\ Get(download.sheet.rows[n], sMensaje)
                   = corregirCodificacion(SelectSeq(data, Qualifies)[n].content.body)

\* C27 witness: a message export wrote two different rows for two
\* qualifying records, the body of one starting with byte order marks.
C27_Witness ==
    /\ lastOp = "exportToExcel2"
    /\ threw = "none"
    /\ Len(data) = 2
    /\ Qualifies(data[1])
    /\ Qualifies(data[2])
    /\ data[1].content.body = vBom
    /\ Len(download.sheet.rows) = 2
    /\ download.sheet.rows[1] # download.sheet.rows[2]

\* the record is not one whose parsed content lacks a flowResponse
WithFlowResponse(row) == ~NoFlowResponse(row)

\* C30: when the discovery pass completes, every header of the catalog is
\* a key of some record's flowResponse or is key | item for some record
\* whose flowResponse holds a list under key containing item; no header
\* occurs twice; and the catalog is the one discovered over the records
\* that have a flowResponse alone.
C30_CatalogSoundness ==
    FlowDiscovered =>
        /\ \A n \in 1..Len(orderedHeaders) :
              \/ \E i \in 1..Len(data) : HasOwn(FlowResponseOf(data[i]), orderedHeaders[n])
              \/ \E c \in IndicatorColumns(data) :
                    /\ orderedHeaders[n] = c.key \o sSeparator \o JSToString(c.item)
                    /\ \E i \in 1..Len(data) : ListHolds(data[i], c.key, c.item)
        /\ \A m, n \in 1..Len(orderedHeaders) :
              m # n => orderedHeaders[m] # orderedHeaders[n]
        /\ orderedHeaders = CatalogOf(SelectSeq(data, WithFlowResponse))

\* C30 witness: discovery completed on a record without flowResponse and a
\* record whose flowResponse holds a list, and the catalog holds a key
\* header and an indicator header.
C30_Witness ==
    /\ FlowDiscovered
    /\ Len(data) = 2
    /\ \E i, i2 \in 1..2 :
          /\ NoFlowResponse(data[i])
          /\ \E c \in IndicatorColumns(<<data[i2]>>) :
                /\ \E n \in 1..Len(orderedHeaders) : orderedHeaders[n] = c.key
                /\ \E n \in 1..Len(orderedHeaders) :
                      orderedHeaders[n] = c.key \o sSeparator \o JSToString(c.item)

\* the fatal decoder accepts the bytes of the file
Decodes(file) == TextDecoderDecode(file.bytes).ok

\* the step is the onload callback of the i-th pending FileReader
OnloadOf(i) ==
    /\ i \in 1..Len(readers)
    /\ lastOp' = "onload"
    /\ Len(readers') < Len(readers)
    /\ readers' = Without(readers, i)

\* the records of the file whose onload assigned data last
LoadedRows == IF loaded = <<>> THEN <<>> ELSE sheet_to_json(loaded[1])

\* C28: a step of onFileChange leaves data as it was; data changes only
\* in the onload callback of a pending reader, to the records of that
\* reader's file, and every callback whose file decodes leaves data at
\* the records of its file, whatever was selected since; so data is
\* always the records of the file whose callback assigned it last, and an
\* export run while readers are pending works on those records.
C28_AsynchronousLoad ==
    /\ [](/\ data = LoadedRows
          /\ lastOp = "exportToExcel" =>
                /\ threw = FlowExport(LoadedRows).error
                /\ threw = "none" => download.sheet = FlowExport(LoadedRows).sheet
          /\ lastOp = "exportToExcel2" =>
                /\ threw = MessageExport(LoadedRows).error
                /\ threw = "none" => download.sheet = MessageExport(LoadedRows).sheet)
    /\ [][/\ lastOp' = "onFileChange" => data' = data
          /\ data' # data =>
                \E i \in 1..Len(readers) : OnloadOf(i) /\ data' = sheet_to_json(readers[i])
          /\ \A i \in 1..Len(readers) :
                (OnloadOf(i) /\ Decodes(readers[i])) => data' = sheet_to_json(readers[i])
          /\ ExportStep => data' = data]_vars

\* C28 witness: two files that decode were selected, the callback of the
\* one selected first ran last, and no reader is pending: data holds the
\* records of that file, which are not those of the file selected last.
C28_Witness ==
    /\ lastOp = "onload"
    /\ readers = <<>>
    /\ selected # <<>>
    /\ loaded # <<>>
    /\ loaded # selected
    /\ Decodes(selected[1])
    /\ data = sheet_to_json(loaded[1])
    /\ data # sheet_to_json(selected[1])

\* C29: a step of onFileChange leaves btnShow false, and with no file
\* selected it leaves data and the pending readers as they were; the
\* onload callback of a file whose bytes are not UTF-8 ends in the
\* decoder's TypeError and leaves data as it was.
C29_FailedLoadKeepsData ==
    [][/\ lastOp' = "onFileChange" => btnShow' = FALSE
       /\ (lastOp' = "onFileChange" /\ selected' = <<>>) =>
             (data' = data /\ readers' = readers)
       /\ \A i \in 1..Len(readers) :
             (OnloadOf(i) /\ ~Decodes(readers[i])) =>
                 (data' = data /\ threw' = "TypeError")]_vars

\* C29 witness: records are loaded, a file whose bytes are not UTF-8 was
\* selected last, its callback has thrown and the records are still held.
C29_Witness ==
    /\ lastOp = "onload"
    /\ threw = "TypeError"
    /\ readers = <<>>
    /\ selected # <<>>
    /\ ~Decodes(selected[1])
    /\ loaded # <<>>
    /\ data # <<>>
    /\ data = sheet_to_json(loaded[1])
    /\ data # sheet_to_json(selected[1])

====
